---- MODULE Spec2Model ----
(***************************************************************************)
(* A model of treq/testing.py: the canned response (StubResponse), the two *)
(* stub strategies (ResponseMapping, ResponseSequence) and the StubTreq    *)
(* facade.                                                                 *)
(*                                                                         *)
(* Python values are modelled as follows.                                  *)
(*   - a str that the code transforms (a method or attribute name) is a    *)
(*     tuple of one-character strings, so that upper() is computed;        *)
(*   - a url, a body and a kwargs value are atomic strings;                *)
(*   - None is the string "None";                                          *)
(*   - a dict is the set of its <<key, value>> pairs;                      *)
(*   - a request tuple (method, url, kwargs) is <<method, url, kwargs>>;   *)
(*   - a stub entry (request, response) is <<request, response>>;          *)
(*   - an object is a record with a cls field naming its class.            *)
(* The outcome of a call is a record [kind, exc, value]: kind is "return"  *)
(* (a plain return), "raise" (an exception left the call), "succeed" (an   *)
(* already fired Deferred holding a result) or "failure" (an already fired *)
(* Deferred holding a Failure).                                            *)
(***************************************************************************)
EXTENDS Integers, Sequences, FiniteSets, TLC

VARIABLES
    input,      \* the stub list handed to the strategy's constructor
    strategy,   \* class of StubTreq.stubs: "none" before construction
    stubs,      \* the strategy's self.stubs
    last,       \* the most recent call: its arguments, its outcome, self.stubs before it
    ncalls,     \* history: number of get_response lookups since construction
    inorder     \* history: the i-th lookup so far carried the i-th request of input

vars == <<input, strategy, stubs, last, ncalls, inorder>>

\* Longest stub list whose construction is checked on its own.
MaxLen == 3
\* Longest stub list of a strategy that calls are made on.
MaxStubs == 2
\* Most get_response lookups made on one strategy object.
MaxCalls == 2

None == "None"

----------------------------------------------------------------------------
\* str.upper()

LowerLetters ==
    <<"a","b","c","d","e","f","g","h","i","j","k","l","m",
      "n","o","p","q","r","s","t","u","v","w","x","y","z">>

UpperLetters ==
    <<"A","B","C","D","E","F","G","H","I","J","K","L","M",
      "N","O","P","Q","R","S","T","U","V","W","X","Y","Z">>

upper_char(c) ==
    IF \E i \in 1..Len(LowerLetters) : LowerLetters[i] = c
    THEN UpperLetters[CHOOSE i \in 1..Len(LowerLetters) : LowerLetters[i] = c]
    ELSE c

upper(s) == [i \in 1..Len(s) |-> upper_char(s[i])]

S_GET == <<"G","E","T">>
S_PUT == <<"P","U","T">>
S_POST == <<"P","O","S","T">>
S_HEAD == <<"H","E","A","D">>
S_DELETE == <<"D","E","L","E","T","E">>
s_get == <<"g","e","t">>
s_head == <<"h","e","a","d">>
s_delete == <<"d","e","l","e","t","e">>
s_options == <<"o","p","t","i","o","n","s">>

----------------------------------------------------------------------------
\* Outcomes

Return(v) == [kind |-> "return", exc |-> "", value |-> v]
Raise(e, v) == [kind |-> "raise", exc |-> e, value |-> v]
Failure(e, v) == [kind |-> "failure", exc |-> e, value |-> v]

\* twisted.internet.defer.succeed: a Deferred already fired with v
succeed(v) == [kind |-> "succeed", exc |-> "", value |-> v]

\* No request reached a strategy.
NoReq == <<>>

----------------------------------------------------------------------------
\* StubResponse

StubResponse(code, headers, data) ==
    [cls |-> "StubResponse", code |-> code, headers |-> headers, _data |-> data]

\* faulty variant: the isinstance test is left out
StubResponse_eq_NoType(self, other) ==
    /\ self.code = other.code
    /\ self.headers = other.headers
    /\ self._data = other._data

StubResponse_eq(self, other) ==
    /\ other.cls = self.cls
    /\ self.code = other.code
    /\ self.headers = other.headers
    /\ self._data = other._data

StubResponse_ne(self, other) == ~ StubResponse_eq(self, other)

----------------------------------------------------------------------------
\* ResponseMapping

\* faulty variant: only neighbouring entries are compared
AdjacentDuplicatePairs(stubs_arg) ==
    {p \in (1..Len(stubs_arg)) \X (1..Len(stubs_arg)) :
        p[2] = p[1] + 1 /\ stubs_arg[p[1]][1] = stubs_arg[p[2]][1]}

\* the pairs (i, j) the nested loops of __init__ raise on
DuplicatePairs(stubs_arg) ==
    {p \in (1..Len(stubs_arg)) \X (1..Len(stubs_arg)) :
        p[1] < p[2] /\ stubs_arg[p[1]][1] = stubs_arg[p[2]][1]}

\* the first such pair in the loops' order: outer index, then inner index
FirstDuplicate(stubs_arg) ==
    CHOOSE p \in DuplicatePairs(stubs_arg) :
        \A q \in DuplicatePairs(stubs_arg) :
            p[1] < q[1] \/ (p[1] = q[1] /\ p[2] <= q[2])

\* out: the constructor's outcome; stubs: self.stubs as the constructor left it
ResponseMapping_init(stubs_arg) ==
    IF DuplicatePairs(stubs_arg) = {}
    THEN [out |-> Return(None), stubs |-> stubs_arg]
    ELSE LET p == FirstDuplicate(stubs_arg)
         IN  [out |-> Raise("Exception", <<stubs_arg[p[1]], stubs_arg[p[2]]>>),
              stubs |-> stubs_arg]

\* faulty variant: the kwargs are left out of the comparison
ResponseMapping_get_response_NoKwargs(self_stubs, method, url, kwargs) ==
    LET hits == {i \in 1..Len(self_stubs) :
                    /\ self_stubs[i][1][1] = method
                    /\ self_stubs[i][1][2] = url}
    IN  IF hits = {}
        THEN [out |-> Raise("ValueError", <<method, url, kwargs>>),
              stubs |-> self_stubs, req |-> <<method, url, kwargs>>]
        ELSE [out |-> Return(self_stubs[CHOOSE i \in hits : \A j \in hits : i <= j][2]),
              stubs |-> self_stubs, req |-> <<method, url, kwargs>>]

\* out: the call's outcome; stubs: self.stubs after the call; req: the tuple looked up
ResponseMapping_get_response(self_stubs, method, url, kwargs) ==
    LET hits == {i \in 1..Len(self_stubs) : self_stubs[i][1] = <<method, url, kwargs>>}
    IN  IF hits = {}
        THEN [out |-> Raise("ValueError", <<method, url, kwargs>>),
              stubs |-> self_stubs, req |-> <<method, url, kwargs>>]
        ELSE [out |-> Return(self_stubs[CHOOSE i \in hits : \A j \in hits : i <= j][2]),
              stubs |-> self_stubs, req |-> <<method, url, kwargs>>]

----------------------------------------------------------------------------
\* ResponseSequence

ResponseSequence_init(stubs_arg) == [out |-> Return(None), stubs |-> stubs_arg]

\* faulty variant: every entry is searched, not only the first
ResponseSequence_get_response_Scan(self_stubs, method, url, kwargs) ==
    ResponseMapping_get_response(self_stubs, method, url, kwargs)

\* faulty variant: a lookup that fails drops the first entry
ResponseSequence_get_response_PopOnFail(self_stubs, method, url, kwargs) ==
    IF Len(self_stubs) > 0 /\ self_stubs[1][1] = <<method, url, kwargs>>
    THEN [out |-> Return(self_stubs[1][2]),
          stubs |-> self_stubs, req |-> <<method, url, kwargs>>]
    ELSE [out |-> Raise("ValueError", <<method, url, kwargs>>),
          stubs |-> IF Len(self_stubs) > 0 THEN Tail(self_stubs) ELSE self_stubs,
          req |-> <<method, url, kwargs>>]

ResponseSequence_get_response(self_stubs, method, url, kwargs) ==
    IF Len(self_stubs) > 0 /\ self_stubs[1][1] = <<method, url, kwargs>>
    THEN [out |-> Return(self_stubs[1][2]),
          stubs |-> self_stubs, req |-> <<method, url, kwargs>>]
    ELSE [out |-> Raise("ValueError", <<method, url, kwargs>>),
          stubs |-> self_stubs, req |-> <<method, url, kwargs>>]

----------------------------------------------------------------------------
\* StubTreq

\* self.stubs.get_response(...): dispatch on the class of the strategy object
get_response(cls, self_stubs, method, url, kwargs) ==
    IF cls = "ResponseMapping"
    THEN ResponseMapping_get_response(self_stubs, method, url, kwargs)
    ELSE ResponseSequence_get_response(self_stubs, method, url, kwargs)

\* faulty variant: a failed lookup is answered with a fired Deferred holding None
StubTreq_request_Swallow(cls, self_stubs, method, url, kwargs) ==
    LET r == get_response(cls, self_stubs, method, url, kwargs)
    IN  IF r.out.kind = "raise"
        THEN [out |-> succeed(None), stubs |-> r.stubs, req |-> r.req]
        ELSE [out |-> succeed(r.out.value), stubs |-> r.stubs, req |-> r.req]

StubTreq_request(cls, self_stubs, method, url, kwargs) ==
    LET r == get_response(cls, self_stubs, method, url, kwargs)
    IN  IF r.out.kind = "raise"
        THEN r
        ELSE [out |-> succeed(r.out.value), stubs |-> r.stubs, req |-> r.req]

StubTreq_content(response) == succeed(response._data)

\* json.loads on the bodies of the model
json_loads(s) ==
    CASE s = "{\"a\": 1}" -> Return({<<"a", 1>>})
      [] s = None -> Raise("TypeError", s)
      [] OTHER -> Raise("ValueError", s)

\* Deferred.addCallback(json.loads) on an already fired Deferred
StubTreq_json_content(response) ==
    LET d == StubTreq_content(response)
        r == json_loads(d.value)
    IN  IF r.kind = "raise" THEN Failure(r.exc, r.value) ELSE succeed(r.value)

\* faulty variant: data is passed on only when it is not None
StubTreq_put_DropNone(cls, self_stubs, url, data, kwargs) ==
    StubTreq_request(cls, self_stubs, S_PUT, url,
                     IF data = None THEN kwargs ELSE kwargs \cup {<<"data", data>>})

StubTreq_put(cls, self_stubs, url, data, kwargs) ==
    StubTreq_request(cls, self_stubs, S_PUT, url, kwargs \cup {<<"data", data>>})

StubTreq_post(cls, self_stubs, url, data, kwargs) ==
    StubTreq_request(cls, self_stubs, S_POST, url, kwargs \cup {<<"data", data>>})

\* faulty variant: the attribute name is bound as the method without upper()
StubTreq_getattr_NoUpper(method) ==
    IF method \in {s_get, s_head, s_delete}
    THEN Return(method)
    ELSE Raise("AttributeError", method)

\* __getattr__: the value is the method that partial() binds to self.request
StubTreq_getattr(method) ==
    IF method \in {s_get, s_head, s_delete}
    THEN Return(upper(method))
    ELSE Raise("AttributeError", method)

----------------------------------------------------------------------------
\* The values the calls are made with

URLs == {"http://x", "http://y"}

\* the kwargs dictionaries passed to get, head, delete
Kwargs == { {}, {<<"data", None>>} }

\* the extra kwargs passed to put and post next to data
ExtraKwargs == { {}, {<<"headers", "H">>} }

\* the data argument of put and post; "omitted" leaves it to its default
DataArgs == {"omitted", "X"}

\* the (method, url, kwargs) that request and get_response are called with
RequestArgs ==
    { <<S_GET, "http://x", {}>>,
      <<s_get, "http://x", {}>>,
      <<S_PUT, "http://x", {}>>,
      <<S_PUT, "http://x", {<<"data", None>>}>>,
      <<S_POST, "http://y", {<<"data", "X">>}>>,
      <<S_GET, "http://y", {}>> }

\* the attribute names that reach __getattr__
AttrNames == {s_get, s_head, s_delete, s_options, S_GET}

R200 == StubResponse(200, {}, "ok")
R404 == StubResponse(404, {<<"Server", "stub">>}, None)
RJson == StubResponse(200, {}, "{\"a\": 1}")

Responses == {R200, R404, RJson}

\* the (request, response) tuples the stub lists are built from
Entries ==
    { <<<<S_GET, "http://x", {}>>, R200>>,
      <<<<S_GET, "http://x", {}>>, RJson>>,
      <<<<S_PUT, "http://x", {}>>, R200>>,
      <<<<S_PUT, "http://x", {<<"data", None>>}>>, RJson>>,
      <<<<S_POST, "http://y", {<<"data", "X">>}>>, R404>>,
      <<<<S_HEAD, "http://y", {}>>, R200>> }

StubLists(maxlen) == UNION {[1..n -> Entries] : n \in 0..maxlen}

NoCall ==
    [op |-> "none", name |-> <<>>, url |-> "", kwargs |-> {}, data |-> "",
     arg |-> None, out |-> Return(None), req |-> NoReq, pre |-> <<>>]

Constructed == strategy \in {"ResponseMapping", "ResponseSequence"}

----------------------------------------------------------------------------
\* The state machine

Init ==
    /\ input \in StubLists(MaxStubs)
    /\ strategy = "none"
    /\ stubs = <<>>
    /\ last = NoCall
    /\ ncalls = 0
    /\ inorder = TRUE

\* StubTreq(ResponseMapping(input))
NewResponseMapping ==
    /\ strategy = "none"
    /\ LET r == ResponseMapping_init(input)
       IN  /\ strategy' = IF r.out.kind = "raise" THEN "none" ELSE "ResponseMapping"
           /\ stubs' = IF r.out.kind = "raise" THEN stubs ELSE r.stubs
           /\ last' = [NoCall EXCEPT !.op = "ResponseMapping", !.out = r.out]
    /\ UNCHANGED <<input, ncalls, inorder>>

\* StubTreq(ResponseSequence(input))
NewResponseSequence ==
    /\ strategy = "none"
    /\ LET r == ResponseSequence_init(input)
       IN  /\ strategy' = "ResponseSequence"
           /\ stubs' = r.stubs
           /\ last' = [NoCall EXCEPT !.op = "ResponseSequence", !.out = r.out]
    /\ UNCHANGED <<input, ncalls, inorder>>

\* the bookkeeping of a call that looked r.req up in the strategy
Lookup(r) ==
    /\ ncalls < MaxCalls
    /\ stubs' = r.stubs
    /\ ncalls' = ncalls + 1
    /\ inorder' = (inorder /\ (ncalls + 1 <= Len(input) => r.req = input[ncalls + 1][1]))
    /\ UNCHANGED <<input, strategy>>

\* self.stubs.get_response(method, url, **kwargs), called on the strategy itself
GetResponse(method, url, kwargs) ==
    /\ Constructed
    /\ LET r == get_response(strategy, stubs, method, url, kwargs)
       IN  /\ last' = [NoCall EXCEPT !.op = "get_response", !.name = method, !.url = url,
                          !.kwargs = kwargs, !.out = r.out, !.req = r.req, !.pre = stubs]
           /\ Lookup(r)

\* stub.request(method, url, **kwargs)
Request(method, url, kwargs) ==
    /\ Constructed
    /\ LET r == StubTreq_request(strategy, stubs, method, url, kwargs)
       IN  /\ last' = [NoCall EXCEPT !.op = "request", !.name = method, !.url = url,
                          !.kwargs = kwargs, !.out = r.out, !.req = r.req, !.pre = stubs]
           /\ Lookup(r)

\* stub.put(url, **kwargs) or stub.put(url, data=..., **kwargs)
Put(url, dataarg, kwargs) ==
    /\ Constructed
    /\ LET data == IF dataarg = "omitted" THEN None ELSE dataarg
           r == StubTreq_put(strategy, stubs, url, data, kwargs)
       IN  /\ last' = [NoCall EXCEPT !.op = "put", !.url = url, !.kwargs = kwargs,
                          !.data = dataarg, !.out = r.out, !.req = r.req, !.pre = stubs]
           /\ Lookup(r)

\* stub.post(url, **kwargs) or stub.post(url, data=..., **kwargs)
Post(url, dataarg, kwargs) ==
    /\ Constructed
    /\ LET data == IF dataarg = "omitted" THEN None ELSE dataarg
           r == StubTreq_post(strategy, stubs, url, data, kwargs)
       IN  /\ last' = [NoCall EXCEPT !.op = "post", !.url = url, !.kwargs = kwargs,
                          !.data = dataarg, !.out = r.out, !.req = r.req, !.pre = stubs]
           /\ Lookup(r)

\* stub.<name>(url, **kwargs) for a name that __getattr__ answers
GetAttrCall(name, url, kwargs) ==
    /\ Constructed
    /\ StubTreq_getattr(name).kind = "return"
    /\ LET r == StubTreq_request(strategy, stubs, StubTreq_getattr(name).value, url, kwargs)
       IN  /\ last' = [NoCall EXCEPT !.op = "getattr_call", !.name = name, !.url = url,
                          !.kwargs = kwargs, !.out = r.out, !.req = r.req, !.pre = stubs]
           /\ Lookup(r)

\* stub.<name> for a name that __getattr__ refuses
GetAttrError(name) ==
    /\ Constructed
    /\ StubTreq_getattr(name).kind = "raise"
    /\ last' = [NoCall EXCEPT !.op = "getattr", !.name = name,
                   !.out = StubTreq_getattr(name), !.pre = stubs]
    /\ UNCHANGED <<input, strategy, stubs, ncalls, inorder>>

\* stub.content(response)
Content(response) ==
    /\ Constructed
    /\ last' = [NoCall EXCEPT !.op = "content", !.arg = response,
                   !.out = StubTreq_content(response), !.pre = stubs]
    /\ UNCHANGED <<input, strategy, stubs, ncalls, inorder>>

\* stub.json_content(response)
JsonContent(response) ==
    /\ Constructed
    /\ last' = [NoCall EXCEPT !.op = "json_content", !.arg = response,
                   !.out = StubTreq_json_content(response), !.pre = stubs]
    /\ UNCHANGED <<input, strategy, stubs, ncalls, inorder>>

Next ==
    \/ NewResponseMapping
    \/ NewResponseSequence
    \/ \E a \in RequestArgs : GetResponse(a[1], a[2], a[3])
    \/ \E a \in RequestArgs : Request(a[1], a[2], a[3])
    \/ \E u \in URLs, d \in DataArgs, kw \in ExtraKwargs : Put(u, d, kw)
    \/ \E u \in URLs, d \in DataArgs, kw \in ExtraKwargs : Post(u, d, kw)
    \/ \E n \in AttrNames, u \in URLs, kw \in Kwargs : GetAttrCall(n, u, kw)
    \/ \E n \in AttrNames : GetAttrError(n)
    \/ \E resp \in Responses : Content(resp)
    \/ \E resp \in Responses : JsonContent(resp)

Spec == Init /\ [][Next]_vars

\* Construction alone, on the longer stub lists.
InitLists ==
    /\ input \in StubLists(MaxLen)
    /\ strategy = "none"
    /\ stubs = <<>>
    /\ last = NoCall
    /\ ncalls = 0
    /\ inorder = TRUE

NextLists ==
    \/ NewResponseMapping
    \/ NewResponseSequence

SpecLists == InitLists /\ [][NextLists]_vars

----------------------------------------------------------------------------
\* StubResponse comparison, on its own

Codes == {200, 404}
HeaderMaps == { {}, {<<"Server", "stub">>} }
Bodies == {None, "ok"}

\* StubResponse objects
StubResponses == {StubResponse(c, h, d) : c \in Codes, h \in HeaderMaps, d \in Bodies}

\* objects of another class that carry the same attributes
OtherObjects == {[r EXCEPT !.cls = "Other"] : r \in StubResponses}

\* the operands are chosen: self is a StubResponse, other is any object
InitEq ==
    /\ \E a \in StubResponses, b \in StubResponses \cup OtherObjects :
          last = [NoCall EXCEPT !.op = "operands", !.arg = <<a, b>>]
    /\ input = <<>>
    /\ strategy = "none"
    /\ stubs = <<>>
    /\ ncalls = 0
    /\ inorder = TRUE

\* self == other
Eq ==
    /\ last.op = "operands"
    /\ last' = [last EXCEPT !.op = "__eq__",
                            !.out = Return(StubResponse_eq(last.arg[1], last.arg[2]))]
    /\ UNCHANGED <<input, strategy, stubs, ncalls, inorder>>

\* self != other
Ne ==
    /\ last.op = "operands"
    /\ last' = [last EXCEPT !.op = "__ne__",
                            !.out = Return(StubResponse_ne(last.arg[1], last.arg[2]))]
    /\ UNCHANGED <<input, strategy, stubs, ncalls, inorder>>

NextEq ==
    \/ Eq
    \/ Ne

SpecEq == InitEq /\ [][NextEq]_vars

----------------------------------------------------------------------------
\* Properties

\* the same kind of outcome, the same exception, the same value
OutEq(a, b) ==
    /\ a.kind = b.kind
    /\ a.exc = b.exc
    /\ a.value = b.value

\* the request tuple built from the arguments of the last call
LastArgs == <<last.name, last.url, last.kwargs>>

\* C1: on a ResponseSequence built from [(req1, resp1), ..., (reqN, respN)],
\* get_response(req1), ..., get_response(reqN) made in that order each succeed
\* and return resp1, ..., respN in order, and one further get_response fails.
C1_InOrderConsumption ==
    (strategy = "ResponseSequence" /\ last.op = "get_response" /\ inorder /\ ncalls >= 1)
    => IF ncalls <= Len(input)
       THEN OutEq(last.out, Return(input[ncalls][2]))
       ELSE last.out.kind = "raise"

\* C2: get_response on a ResponseSequence compares the request with the first
\* remaining entry only: it returns that entry's response when the request
\* tuples are equal, and raises ValueError otherwise, also when a later entry
\* has an equal request tuple and always when the sequence is empty.
C2_FirstEntryOnly ==
    (strategy = "ResponseSequence" /\ last.op = "get_response")
    => IF Len(last.pre) > 0 /\ last.pre[1][1] = LastArgs
       THEN OutEq(last.out, Return(last.pre[1][2]))
       ELSE OutEq(last.out, Raise("ValueError", LastArgs))

C2_Witness ==
    /\ strategy = "ResponseSequence"
    /\ last.op = "get_response"
    /\ Len(last.pre) >= 2
    /\ last.pre[1][1] # LastArgs
    /\ last.pre[2][1] = LastArgs
    /\ last.out.kind = "raise"

\* C3: request(method, ...) resolves exactly as request(method.upper(), ...)
\* does: the same kind of outcome and, on success, the same response.
C3_MethodCaseNormalized ==
    last.op = "request"
    => LET r == StubTreq_request(strategy, last.pre, upper(last.name),
                                 last.url, last.kwargs)
       IN  /\ last.out.kind = r.out.kind
           /\ last.out.kind = "succeed" => last.out.value = r.out.value

\* C4 as stated: request always returns a fired Deferred, a success holding
\* the matched response when the strategy matches and a failure holding the
\* strategy's exception when it does not.
C4_AlwaysDeferred ==
    last.op = "request"
    => LET g == get_response(strategy, last.pre, last.name, last.url, last.kwargs).out
       IN  IF g.kind = "return"
           THEN OutEq(last.out, succeed(g.value))
           ELSE OutEq(last.out, Failure(g.exc, g.value))

\* C4 as amended: when the strategy matches, request returns a fired Deferred
\* holding exactly the matched response; when the strategy raises, that
\* ValueError leaves request itself and no Deferred is returned; a mismatch
\* never becomes a success.
C4_SucceedOrRaise ==
    last.op = "request"
    => LET g == get_response(strategy, last.pre, last.name, last.url, last.kwargs).out
       IN  IF g.kind = "return"
           THEN OutEq(last.out, succeed(g.value))
           ELSE OutEq(last.out, Raise("ValueError", LastArgs))

C4_Witness ==
    /\ last.op = "request"
    /\ strategy = "ResponseSequence"
    /\ Len(last.pre) > 0
    /\ last.out.kind = "raise"

\* C5: ResponseMapping(stubs) raises exactly when two entries at different
\* positions, neighbours or not, carry equal request tuples, whatever their
\* responses, and names two such entries; otherwise it keeps the list, so a
\* constructed ResponseMapping has at most one entry for any request tuple.
C5_DuplicatesRejected ==
    /\ last.op = "ResponseMapping"
       => IF \E i, j \in 1..Len(input) : i # j /\ input[i][1] = input[j][1]
          THEN /\ last.out.kind = "raise"
               /\ last.out.exc = "Exception"
               /\ \E i, j \in 1..Len(input) :
                     /\ i < j
                     /\ input[i][1] = input[j][1]
                     /\ last.out.value = <<input[i], input[j]>>
               /\ strategy = "none"
          ELSE /\ last.out.kind = "return"
               /\ strategy = "ResponseMapping"
               /\ stubs = input
    /\ strategy = "ResponseMapping"
       => \A i, j \in 1..Len(stubs) : stubs[i][1] = stubs[j][1] => i = j

C5_Witness ==
    /\ last.op = "ResponseMapping"
    /\ last.out.kind = "raise"
    /\ Len(input) = 3
    /\ input[1][1] = input[3][1]
    /\ input[1][1] # input[2][1]
    /\ input[1][2] # input[3][2]

\* C6: get_response on a ResponseMapping returns the response of the entry of
\* the constructor's list whose request tuple equals the arguments, whatever
\* calls were made before, and raises ValueError naming the arguments when no
\* entry has that request tuple.
C6_MappingLookup ==
    (strategy = "ResponseMapping" /\ last.op = "get_response")
    => /\ \A i \in 1..Len(input) :
             input[i][1] = LastArgs => OutEq(last.out, Return(input[i][2]))
       /\ (\A i \in 1..Len(input) : input[i][1] # LastArgs)
             => OutEq(last.out, Raise("ValueError", LastArgs))

C6_Witness ==
    /\ strategy = "ResponseMapping"
    /\ last.op = "get_response"
    /\ ncalls >= 2
    /\ Len(input) = 2
    /\ input[2][1] = LastArgs
    /\ last.out.kind = "return"

\* C7: put(url, data, **kw) has the outcome and the effect on the strategy of
\* request('PUT', url, data=data, **kw), and post likewise with 'POST'; with
\* data omitted the tuple looked up carries data=None, so it is not the tuple
\* ('PUT', url, {}) and a list with no data=None entry does not answer it.
C7_PutPostAsRequest ==
    last.op \in {"put", "post"}
    => LET m == IF last.op = "put" THEN S_PUT ELSE S_POST
           data == IF last.data = "omitted" THEN None ELSE last.data
           r == StubTreq_request(strategy, last.pre, m, last.url,
                                 last.kwargs \cup {<<"data", data>>})
       IN  /\ OutEq(last.out, r.out)
           /\ stubs = r.stubs
           /\ last.req = <<m, last.url, last.kwargs \cup {<<"data", data>>}>>
           /\ last.data = "omitted"
              => /\ <<"data", None>> \in last.req[3]
                 /\ last.req # <<m, last.url, {}>>
                 /\ (\A i \in 1..Len(last.pre) : <<"data", None>> \notin last.pre[i][1][3])
                       => last.out.kind = "raise"

C7_Witness ==
    /\ last.op = "put"
    /\ last.data = "omitted"
    /\ last.kwargs = {}
    /\ \E i \in 1..Len(last.pre) : last.pre[i][1] = <<S_PUT, last.url, {}>>
    /\ last.out.kind = "raise"

\* the method each dynamic name stands for
MethodOfName(name) ==
    CASE name = s_get -> S_GET
      [] name = s_head -> S_HEAD
      [] name = s_delete -> S_DELETE

\* C8: for name in get, head, delete, stub.<name>(url, **kw) has the outcome
\* and the effect on the strategy of request(<NAME>, url, **kw); any other
\* name raises AttributeError naming it, looks nothing up, changes nothing.
C8_DynamicMethods ==
    /\ \A n \in {s_get, s_head, s_delete} : StubTreq_getattr(n).kind = "return"
    /\ last.op = "getattr_call"
       => /\ last.name \in {s_get, s_head, s_delete}
          /\ LET r == StubTreq_request(strategy, last.pre, MethodOfName(last.name),
                                       last.url, last.kwargs)
             IN  /\ OutEq(last.out, r.out)
                 /\ stubs = r.stubs
                 /\ last.req = r.req
    /\ last.op = "getattr"
       => /\ last.name \notin {s_get, s_head, s_delete}
          /\ OutEq(last.out, Raise("AttributeError", last.name))
          /\ last.req = NoReq
          /\ stubs = last.pre

C8_Witness ==
    /\ last.op = "getattr_call"
    /\ last.name = s_head
    /\ last.out.kind = "succeed"

\* C9: a call changes self.stubs only by dropping the first entry of a
\* ResponseSequence on a successful lookup: a ResponseMapping keeps the
\* constructor's list, content, json_content and a refused attribute change
\* nothing, and a lookup that fails on a ResponseSequence leaves the list as
\* it was, so that the request of its first entry is still answered.
C9_OnlyConsumptionMutates ==
    (Constructed /\ last.op \notin {"ResponseMapping", "ResponseSequence"})
    => /\ \/ stubs = last.pre
          \/ /\ strategy = "ResponseSequence"
             /\ last.req # NoReq
             /\ last.out.kind \in {"return", "succeed"}
             /\ Len(last.pre) > 0
             /\ stubs = Tail(last.pre)
       /\ strategy = "ResponseMapping" => stubs = input
       /\ last.op \in {"content", "json_content", "getattr"} => stubs = last.pre
       /\ (strategy = "ResponseSequence" /\ last.req # NoReq /\ last.out.kind = "raise")
          => /\ stubs = last.pre
             /\ Len(last.pre) > 0
                => OutEq(ResponseSequence_get_response(
                             stubs, last.pre[1][1][1], last.pre[1][1][2],
                             last.pre[1][1][3]).out,
                         Return(last.pre[1][2]))

C9_Witness ==
    /\ strategy = "ResponseSequence"
    /\ last.req # NoReq
    /\ last.out.kind = "raise"
    /\ Len(stubs) > 0
    /\ ncalls >= 2

\* C10: for a StubResponse a and any object b, a == b exactly when b is a
\* StubResponse with the same code, headers and body; a == a; a != b is the
\* negation of a == b; an object that is no StubResponse is not equal to a.
C10_Equality ==
    last.op \in {"__eq__", "__ne__"}
    => LET a == last.arg[1]
           b == last.arg[2]
           same == /\ b.cls = "StubResponse"
                   /\ a.code = b.code
                   /\ a.headers = b.headers
                   /\ a._data = b._data
       IN  /\ last.op = "__eq__" => last.out.value = same
           /\ last.op = "__ne__" => last.out.value = ~ same
           /\ (last.op = "__eq__" /\ a = b) => last.out.value = TRUE
           /\ (last.op = "__eq__" /\ b.cls # "StubResponse") => last.out.value = FALSE

C10_Witness ==
    /\ last.op = "__eq__"
    /\ last.arg[2].cls # "StubResponse"
    /\ last.arg[1].code = last.arg[2].code
    /\ last.arg[1].headers = last.arg[2].headers
    /\ last.arg[1]._data = last.arg[2]._data
    /\ last.out.value = FALSE

====
